---- MODULE Spec2Model ----
(***************************************************************************)
(* Conversation state synchronisation of the bot-gpt client:               *)
(* ConversationWindow (messages, documents, processing set, grounding      *)
(* selection, poll timer, realtime handlers) and the SocketService         *)
(* singleton; DashboardPage supplies the conversationId prop.              *)
(* The backend is the environment: it owns the conversations, answers      *)
(* requests and emits push events.                                         *)
(***************************************************************************)
EXTENDS Integers, Sequences, FiniteSets, Bags, TLC

\* ------------------------------------------------------------------ bounds
MaxSwitches == 2   \* conversation selections made by the user
MaxSends    == 1   \* handleSend calls (readings of Date.now())
MaxMsgs     == 1   \* messages the backend creates
MaxLoads    == 2   \* get-conversation requests of loadConversation in flight
MaxTimeouts == 2   \* pending delayed re-fetch timeouts
MaxAppended == 3   \* length of a message list that grows without de-duplication
MaxUploads  == 2   \* documents the backend creates for upload requests
MaxFiles    == 1   \* files of one selection of the file input
MaxDocLoads == 1   \* get-conversation requests in flight in SpecDocs
MaxDocTimeouts == 1 \* pending delayed re-fetch timeouts in SpecDocs
MaxSendCalls == 2   \* sends of the sending specification (SpecSend)
MaxBatch == 3       \* files of one selection in the file input (SpecUpload)
MaxSnapshotDocs == 2 \* documents of a conversation the backend starts with

\* ------------------------------------------------------------ value spaces
Convs     == {"A", "B"}
Null      == "null"
Roles     == {"user", "assistant"}
\* the identifier of the n-th document the backend creates
DocIdOf(n) == <<"d1", "d2", "d3", "d4", "d5">>[n]
DocIds    == {DocIdOf(n) : n \in 1..(MaxUploads + 1)}
FileTypes == {"application/pdf", "text/plain"}
Undefined == "undefined"

\* content_snippet values: the in-progress sentinel and a done-prefixed text
InProgress == "Processing..."
DonePrefix == "Processed"
DoneText   == "Processed 3 chunks"
OtherText  == "Annual report, page 1"
Markers    == {Undefined, "", InProgress, DonePrefix, DoneText, OtherText}

\* a message identifier: server-issued <<"srv", n>> or `temp-${Date.now()}`
ServerId(n) == <<"srv", n>>
TempId(n)   == <<"temp", n>>
IsTempId(i) == i[1] = "temp"

VARIABLES
    conversationId,         \* prop of ConversationWindow (selectedConversationIdState)
    messages,               \* useState<Message[]>
    documents,              \* useState<Document[]>
    selectedDocIds,         \* useState<Set<string>>
    processingDocs,         \* useState<Set<string>>
    isLoading,
    isSending,
    messageHandlerRef,      \* conversation of the handler held by the ref, or Null
    docProcessedHandlerRef,
    pollTimer,              \* conversation the armed interval's closure loads, or Null
    timeouts,               \* pending delayed re-fetches: closure conversation of each
    socket,                 \* SocketService.socket: "none", "connecting", "connected",
                            \* "reconnecting", "closed"
    attempts,               \* reconnection attempts of the current socket that failed
    abandoned,              \* sockets connect() has replaced without closing them
    currentConversation,    \* currentConversationState: <<the conversation>>, or <<>> for null
    atomReqs,               \* get-conversation requests whose response sets that atom
    rooms,                  \* rooms the current socket has joined
    msgListeners,           \* listeners of "new_message" on the current socket
    docListeners,           \* listeners of "doc_processed" on the current socket
    getReqs,                \* get-conversation requests in flight
    sendReqs,               \* send-message requests in flight
    now,                    \* readings of Date.now() taken so far
    nSwitch,                \* selections made so far
    serverMsgs,             \* backend: messages of each conversation
    serverDocs,             \* backend: documents of each conversation
    nextMsgId,              \* backend: next message identifier
    upload,                 \* <<the suspended handleFileUpload>>, or <<>>
    nextDocId,              \* backend: number of the next document
    hist,                   \* history: uploads accepted and events handled
    last                    \* the operation of the last step and its arguments

view == <<conversationId, messages, documents, selectedDocIds,
          processingDocs, isLoading, isSending>>
refs == <<messageHandlerRef, docProcessedHandlerRef>>
chan == <<socket, rooms, msgListeners, docListeners>>
srv  == <<serverMsgs, serverDocs, nextMsgId, nextDocId>>
net  == <<attempts, abandoned>>
pre  == <<currentConversation, atomReqs>>
vars == <<conversationId, messages, documents, selectedDocIds,
          processingDocs, isLoading, isSending, messageHandlerRef,
          docProcessedHandlerRef, pollTimer, timeouts, socket, rooms,
          msgListeners, docListeners, getReqs, sendReqs, now, nSwitch,
          serverMsgs, serverDocs, nextMsgId, upload, nextDocId, hist, last,
          attempts, abandoned, currentConversation, atomReqs>>

\* ----------------------------------------------------------- pure helpers
RECURSIVE SeqFilterOut(_, _)
\* prev.filter((m) => m.id !== id)
SeqFilterOut(s, id) ==
    IF s = <<>> THEN <<>>
    ELSE IF Head(s).id = id THEN SeqFilterOut(Tail(s), id)
         ELSE <<Head(s)>> \o SeqFilterOut(Tail(s), id)

Ids(s) == {s[i].id : i \in 1..Len(s)}

NoDuplicateIds(s) == \A i, j \in 1..Len(s) : s[i].id = s[j].id => i = j

RemoveAt(s, i) == SubSeq(s, 1, i - 1) \o SubSeq(s, i + 1, Len(s))

\* addMessage with the test of `exists` inverted
addMessageInverted(prev, newMessage) ==
    IF \E i \in 1..Len(prev) : prev[i].id = newMessage.id
    THEN Append(prev, newMessage)
    ELSE prev

\* setMessages((prev) => prev.some((m) => m.id === newMessage.id) ? prev : [...prev, newMessage])
addMessage(prev, newMessage) ==
    IF \E i \in 1..Len(prev) : prev[i].id = newMessage.id
    THEN prev
    ELSE Append(prev, newMessage)

\* content_snippet.startsWith("Processed"), over the snippet values of the model
StartsWithDone(snippet) == snippet \in {DonePrefix, DoneText}

\* the predicate loadConversation uses to put a document in the processing set
IsProcessing(doc) ==
    \/ doc.content_snippet = InProgress
    \/ /\ doc.content_snippet # Undefined
       /\ doc.content_snippet # ""
       /\ ~StartsWithDone(doc.content_snippet)
       /\ ~doc.embedding

\* isDocumentReady without its first test
isDocumentReadyNoSentinelTest(doc) ==
    IF doc.content_snippet # Undefined /\ doc.content_snippet # ""
       /\ StartsWithDone(doc.content_snippet) THEN TRUE
    ELSE doc.embedding

isDocumentReady(doc) ==
    IF doc.content_snippet = InProgress THEN FALSE
    ELSE IF doc.content_snippet # Undefined /\ doc.content_snippet # ""
            /\ StartsWithDone(doc.content_snippet) THEN TRUE
    ELSE doc.embedding

RECURSIVE UniqueDocsFirstWins(_)
\* the de-duplication that keeps the first document of an identifier
UniqueDocsFirstWins(docs) ==
    IF docs = <<>> THEN <<>>
    ELSE <<Head(docs)>> \o UniqueDocsFirstWins(SeqFilterOut(Tail(docs), Head(docs).id))

RECURSIVE UniqueDocs(_)
\* Array.from(new Map(docs.map(doc => [doc.id, doc])).values()):
\* a key keeps the position of its first occurrence and the value of its last
UniqueDocs(docs) ==
    IF docs = <<>> THEN <<>>
    ELSE LET d    == Head(docs)
             rest == Tail(docs)
             lastIdx == IF \E i \in 1..Len(rest) : rest[i].id = d.id
                        THEN CHOOSE i \in 1..Len(rest) :
                                /\ rest[i].id = d.id
                                /\ \A j \in (i+1)..Len(rest) : rest[j].id # d.id
                        ELSE 0
             val  == IF lastIdx = 0 THEN d ELSE rest[lastIdx]
         IN <<val>> \o UniqueDocs(SeqFilterOut(rest, d.id))

ProcessingOf(docs) == {docs[i].id : i \in {k \in 1..Len(docs) : IsProcessing(docs[k])}}

\* the poll effect without its test of processingDocs.size
PollEffectIgnoresSize(cid, processing) == cid

\* the poll effect, deps [processingDocs.size, conversationId]
PollEffect(cid, processing) ==
    IF processing = {} \/ cid = Null THEN Null ELSE cid

Snapshot(c) == [id |-> c, messages |-> serverMsgs[c], documents |-> serverDocs[c]]

\* history of the active conversation's view since it was selected:
\* U        the documents whose upload response has been applied,
\* P        the documents a doc_processed event has been handled for,
\* fresh    the processing set was empty when the first of U was applied,
\* ordered  no event of P came before the upload response of its document,
\* noLoad   no load response has been applied since the first of U was
NoHistory == [U |-> {}, P |-> {}, fresh |-> TRUE, ordered |-> TRUE, noLoad |-> TRUE]

InitServerDocs ==
    [c \in Convs |->
        IF c = "A"
        THEN <<[id |-> DocIdOf(1), conversation_id |-> "A",
                content_snippet |-> InProgress, embedding |-> FALSE]>>
        ELSE <<>>]

\* the client after construction, and the backend but for its documents
InitClient ==
    /\ conversationId = Null
    /\ messages = <<>>
    /\ documents = <<>>
    /\ selectedDocIds = {}
    /\ processingDocs = {}
    /\ isLoading = FALSE
    /\ isSending = FALSE
    /\ messageHandlerRef = Null
    /\ docProcessedHandlerRef = Null
    /\ pollTimer = Null
    /\ timeouts = <<>>
    /\ socket = "none"
    /\ attempts = 0
    /\ abandoned = <<>>
    /\ currentConversation = <<>>
    /\ atomReqs = EmptyBag
    /\ rooms = {}
    /\ msgListeners = <<>>
    /\ docListeners = <<>>
    /\ getReqs = EmptyBag
    /\ sendReqs = {}
    /\ now = 0
    /\ nSwitch = 0
    /\ serverMsgs = [c \in Convs |-> <<>>]
    /\ nextMsgId = 1
    /\ upload = <<>>
    /\ nextDocId = 2
    /\ hist = NoHistory
    /\ last = [op |-> "init"]

Init == InitClient /\ serverDocs = InitServerDocs

\* every document record a get-conversation response can carry
AnyDocs(c) ==
    [id : {DocIdOf(1), DocIdOf(2)}, conversation_id : {c},
     content_snippet : Markers, embedding : BOOLEAN]

\* the lists of at most MaxSnapshotDocs such documents, repeated identifiers included
AnyDocLists(c) == UNION {[1..n -> AnyDocs(c)] : n \in 0..MaxSnapshotDocs}

\* the client after construction, with a backend whose conversation A holds
\* any such list
InitIngest ==
    /\ InitClient
    /\ \E docs \in AnyDocLists("A") :
          serverDocs = [c \in Convs |-> IF c = "A" THEN docs ELSE <<>>]

\* ------------------------------------------------------- SocketService
Listener(fn, c) == [fn |-> fn, conv |-> c]

RECURSIVE Off(_, _)
\* socket.off(event, fn): removes the first listener that is fn itself
Off(listeners, fn) ==
    IF listeners = <<>> THEN <<>>
    ELSE IF Head(listeners) = fn THEN Tail(listeners)
         ELSE <<Head(listeners)>> \o Off(Tail(listeners), fn)

\* SocketService.connect: reuse the socket when it is connected, else io(...)
\* makes a new one, which has no listener and is in no room
connect(ch) ==
    IF ch.socket = "connected" THEN ch
    ELSE [socket |-> "connecting", rooms |-> {}, msgL |-> <<>>, docL |-> <<>>]

joinConversation(ch, c) ==
    IF ch.socket # "none" THEN [ch EXCEPT !.rooms = @ \cup {c}] ELSE ch

\* leaveConversation that emits nothing
leaveConversationOmitted(ch, c) == ch

leaveConversation(ch, c) ==
    IF ch.socket # "none" THEN [ch EXCEPT !.rooms = @ \ {c}] ELSE ch

onMessage(ch, cb) ==
    IF ch.socket # "none" THEN [ch EXCEPT !.msgL = Append(@, cb)] ELSE ch

offMessage(ch, cb) ==
    IF ch.socket # "none" THEN [ch EXCEPT !.msgL = Off(@, cb)] ELSE ch

\* registers a fresh arrow function that calls the callback
onDocumentProcessed(ch, cb) ==
    IF ch.socket # "none"
    THEN [ch EXCEPT !.docL = Append(@, Listener("wrapper", cb.conv))]
    ELSE ch

offDocumentProcessed(ch, cb) ==
    IF ch.socket # "none" THEN [ch EXCEPT !.docL = Off(@, cb)] ELSE ch

\* what becomes of the socket connect() replaces: this.socket is overwritten
\* without a disconnect(), so a socket that is still connecting or
\* reconnecting stays open next to the new one
Orphan(ch, n) ==
    IF ch.socket \in {"connecting", "reconnecting"}
    THEN <<[socket |-> ch.socket, rooms |-> ch.rooms, attempts |-> n]>>
    ELSE <<>>

Channel == [socket |-> socket, rooms |-> rooms, msgL |-> msgListeners, docL |-> docListeners]

SetChannel(ch) ==
    /\ socket' = ch.socket
    /\ rooms' = ch.rooms
    /\ msgListeners' = ch.msgL
    /\ docListeners' = ch.docL

\* ------------------------------------------------- requests in flight
\* a get-conversation request of loadConversation; snap is the conversation
\* the backend has read for it, once it has
GetReq(c) == [conv |-> c, snap |-> <<>>]

One(x) == SetToBag({x})

\* ------------------------------------- ConversationWindow: effects
\* cleanup of the mount effect (deps [conversationId]) for conversation old
EffectCleanup(ch, old) ==
    LET ch1 == IF old # Null THEN leaveConversation(ch, old) ELSE ch
        ch2 == IF messageHandlerRef # Null
               THEN offMessage(ch1, Listener("messageHandler", messageHandlerRef))
               ELSE ch1
        ch3 == IF docProcessedHandlerRef # Null
               THEN offDocumentProcessed(ch2, Listener("docProcessedHandler", docProcessedHandlerRef))
               ELSE ch2
    IN ch3

\* connectSocket of the render with conversationId = c
connectSocket(ch, c) ==
    LET ch1 == joinConversation(connect(ch), c)
        ch2 == onMessage(ch1, Listener("messageHandler", c))
    IN onDocumentProcessed(ch2, Listener("docProcessedHandler", c))

\* the steps a change of conversationId from old to new performs, in the
\* order React runs them: the cleanups of both effects in declaration order,
\* then the effects in declaration order
SwitchSteps(old, new) ==
    (IF old # Null THEN <<"leaveRoom">> ELSE <<>>)
    \o (IF messageHandlerRef # Null THEN <<"offMessage">> ELSE <<>>)
    \o (IF docProcessedHandlerRef # Null THEN <<"offDocumentProcessed">> ELSE <<>>)
    \o (IF pollTimer # Null THEN <<"clearInterval">> ELSE <<>>)
    \o (IF new # Null THEN <<"loadConversation", "connect", "joinRoom",
                             "onMessage", "onDocumentProcessed">> ELSE <<>>)
    \o (IF PollEffect(new, processingDocs) # Null THEN <<"setInterval">> ELSE <<>>)

\* loadConversation of a render with conversationId = c, up to its await
StartLoad(c) ==
    /\ BagCardinality(getReqs) < MaxLoads
    /\ isLoading' = TRUE
    /\ getReqs' = getReqs (+) One(GetReq(c))

\* the preload effect that fetches only while the atom is empty
shouldPreloadOnlyWhenEmpty(atom, id) == atom = <<>>

\* the test of the effect of useConversationPreload:
\* !currentConversation || currentConversation.id !== conversationId
shouldPreload(atom, id) == atom = <<>> \/ atom[1].id # id

\* the requests the effect of useConversationPreload issues when it runs with
\* this atom for the selected conversation id
PreloadRequests(atom, id) ==
    IF id # Null /\ shouldPreload(atom, id) THEN One(GetReq(id)) ELSE EmptyBag

\* what handleSelectConversation(id) and the effect of useConversationPreload,
\* which runs because selectedId has changed, do to the atom
SelectPreload(id) ==
    IF id = Null
    THEN /\ currentConversation' = <<>>
         /\ UNCHANGED atomReqs
    ELSE /\ UNCHANGED currentConversation
         /\ atomReqs' = atomReqs (+) One(GetReq(id))
                                 (+) PreloadRequests(currentConversation, id)

\* DashboardPage.handleSelectConversation(id): setSelectedId(id), and the
\* re-render of ConversationWindow with the new prop (cleanups, then effects)
SelectConversation(id) ==
    /\ nSwitch < MaxSwitches
    /\ id # conversationId
    /\ nSwitch' = nSwitch + 1
    /\ conversationId' = id
    /\ IF id # Null
       THEN /\ StartLoad(id)
            /\ SetChannel(connectSocket(EffectCleanup(Channel, conversationId), id))
            /\ abandoned' = abandoned \o Orphan(EffectCleanup(Channel, conversationId), attempts)
            /\ attempts' = IF socket = "connected" THEN attempts ELSE 0
            /\ messageHandlerRef' = id
            /\ docProcessedHandlerRef' = id
       ELSE /\ SetChannel(EffectCleanup(Channel, conversationId))
            /\ UNCHANGED <<isLoading, getReqs, refs, net>>
    /\ pollTimer' = PollEffect(id, processingDocs)
    /\ SelectPreload(id)
    /\ last' = [op |-> "select", from |-> conversationId, to |-> id,
                steps |-> SwitchSteps(conversationId, id)]
    /\ UNCHANGED <<messages, documents, selectedDocIds, processingDocs, isSending,
                   timeouts, sendReqs, now, srv>>
    /\ hist' = NoHistory
    /\ UNCHANGED upload

\* ------------------------------------------- ConversationWindow: loading
\* the load that appends the loaded documents to the list
loadedDocumentsAppended(prev, uniqueDocs) == prev \o uniqueDocs

\* setDocuments(uniqueDocs): the new list does not depend on the previous one
loadedDocuments(prev, uniqueDocs) == uniqueDocs

\* setMessages / setDocuments / setProcessingDocs of loadConversation
ApplySnapshot(snap) ==
    LET uniqueDocs == UniqueDocs(snap.documents)
    IN /\ messages' = snap.messages
       /\ documents' = loadedDocuments(documents, uniqueDocs)
       /\ processingDocs' = ProcessingOf(uniqueDocs)
       /\ pollTimer' = PollEffect(conversationId, ProcessingOf(uniqueDocs))

\* the backend reads the conversation for a get-conversation request
ServerGet(req) ==
    /\ req.snap = <<>>
    /\ getReqs' = (getReqs (-) One(req)) (+) One([req EXCEPT !.snap = <<Snapshot(req.conv)>>])
    /\ UNCHANGED net
    /\ UNCHANGED pre
    /\ last' = [op |-> "server_get"]
    /\ UNCHANGED <<view, refs, pollTimer, timeouts, chan, sendReqs, now, nSwitch, srv>>
    /\ UNCHANGED <<upload, hist>>

\* conversationsApi.get resolves: the rest of loadConversation
GetResponse(req) ==
    /\ req.snap # <<>>
    /\ getReqs' = getReqs (-) One(req)
    /\ ApplySnapshot(req.snap[1])
    /\ isLoading' = FALSE
    /\ UNCHANGED net
    /\ UNCHANGED pre
    /\ last' = [op |-> "get_response", conv |-> req.conv, snap |-> req.snap[1],
                repeat |-> last.op = "get_response" /\ last.snap = req.snap[1]]
    /\ hist' = [hist EXCEPT !.noLoad = @ /\ hist.U = {}]
    /\ UNCHANGED <<conversationId, selectedDocIds, isSending, refs, timeouts,
                   chan, sendReqs, now, nSwitch, srv, upload>>

\* ------------------------------------ the current-conversation atom
\* the identifier of the conversation the atom holds, or Null
AtomId == IF currentConversation = <<>> THEN Null ELSE currentConversation[1].id

\* the backend reads the conversation for a request of handleSelectConversation
\* or of useConversationPreload
AtomServerGet(req) ==
    /\ req.snap = <<>>
    /\ atomReqs' = (atomReqs (-) One(req)) (+) One([req EXCEPT !.snap = <<Snapshot(req.conv)>>])
    /\ last' = [op |-> "atom_server_get"]
    /\ UNCHANGED <<view, refs, pollTimer, timeouts, chan, getReqs, sendReqs, now,
                   nSwitch, srv, upload, hist, net, currentConversation>>

\* such a request resolves: setCurrentConversation(conversation), then the
\* effects that depend on the atom: the one of ConversationWindow copies the
\* conversation into the view, the one of useConversationPreload sets the
\* atom to null when nothing is selected and fetches the selected
\* conversation when the atom holds another one
AtomResponse(req) ==
    /\ req.snap # <<>>
    /\ ApplySnapshot(req.snap[1])
    /\ currentConversation' = IF conversationId = Null THEN <<>> ELSE req.snap
    /\ atomReqs' = (atomReqs (-) One(req)) (+) PreloadRequests(req.snap, conversationId)
    /\ hist' = [hist EXCEPT !.noLoad = @ /\ hist.U = {}]
    /\ last' = [op |-> "atom_response", conv |-> req.conv,
                late |-> req.conv # conversationId /\ AtomId = conversationId
                         /\ conversationId # Null]
    /\ UNCHANGED <<conversationId, selectedDocIds, isLoading, isSending, refs,
                   timeouts, chan, getReqs, sendReqs, now, nSwitch, srv, upload, net>>

\* such a request rejects: both catch blocks only log
AtomFailure(req) ==
    /\ atomReqs' = atomReqs (-) One(req)
    /\ last' = [op |-> "atom_failure", conv |-> req.conv]
    /\ UNCHANGED <<view, refs, pollTimer, timeouts, chan, getReqs, sendReqs, now,
                   nSwitch, srv, upload, hist, net, currentConversation>>

\* Selections with the requests they cause, all of which succeed.
NextPreloadLive ==
    \/ \E id \in Convs \cup {Null} : SelectConversation(id)
    \/ \E req \in BagToSet(getReqs) : ServerGet(req)
    \/ \E req \in BagToSet(getReqs) : GetResponse(req)
    \/ \E req \in BagToSet(atomReqs) : AtomServerGet(req)
    \/ \E req \in BagToSet(atomReqs) : AtomResponse(req)

\* every request is eventually answered
SpecPreloadLive ==
    /\ Init
    /\ [][NextPreloadLive]_vars
    /\ WF_vars(\E req \in BagToSet(getReqs) : ServerGet(req))
    /\ WF_vars(\E req \in BagToSet(getReqs) : GetResponse(req))
    /\ WF_vars(\E req \in BagToSet(atomReqs) : AtomServerGet(req))
    /\ WF_vars(\E req \in BagToSet(atomReqs) : AtomResponse(req))

\* conversationsApi.get rejects: catch and finally of loadConversation
GetFailure(req) ==
    /\ getReqs' = getReqs (-) One(req)
    /\ isLoading' = FALSE
    /\ UNCHANGED net
    /\ UNCHANGED pre
    /\ last' = [op |-> "get_failure", conv |-> req.conv, toasts |-> <<>>]
    /\ UNCHANGED <<conversationId, messages, documents, selectedDocIds,
                   processingDocs, isSending, refs, pollTimer, timeouts, chan,
                   sendReqs, now, nSwitch, srv>>
    /\ UNCHANGED <<upload, hist>>

\* the interval of the poll effect fires
PollTick ==
    /\ pollTimer # Null
    /\ StartLoad(pollTimer)
    /\ UNCHANGED net
    /\ UNCHANGED pre
    /\ last' = [op |-> "poll_tick", conv |-> pollTimer]
    /\ UNCHANGED <<conversationId, messages, documents,
                   selectedDocIds, processingDocs, isSending, refs, pollTimer,
                   timeouts, chan, sendReqs, now, nSwitch, srv>>
    /\ UNCHANGED <<upload, hist>>

\* the setTimeout of docProcessedHandler fires
DelayedRefetch(i) ==
    /\ StartLoad(timeouts[i])
    /\ timeouts' = RemoveAt(timeouts, i)
    /\ UNCHANGED net
    /\ UNCHANGED pre
    /\ last' = [op |-> "delayed_refetch", conv |-> timeouts[i]]
    /\ UNCHANGED <<conversationId, messages, documents,
                   selectedDocIds, processingDocs, isSending, refs, pollTimer,
                   chan, sendReqs, now, nSwitch, srv>>
    /\ UNCHANGED <<upload, hist>>

\* ------------------------------------------- ConversationWindow: sending
TempMessage(c, n) == [id |-> TempId(n), conversation_id |-> c, role |-> "user"]

\* the acknowledgment without the test for a message already present
AckMessagesNoExistsCheck(prev, tempId, response) ==
    Append(SeqFilterOut(prev, tempId), response)

\* the updater handleSend applies when sendMessage resolves
AckMessages(prev, tempId, response) ==
    LET filtered == SeqFilterOut(prev, tempId)
    IN IF \E i \in 1..Len(filtered) : filtered[i].id = response.id
       THEN filtered
       ELSE Append(filtered, response)

\* the rollback with the comparison of the filter inverted
RollbackMessagesInverted(prev, tempId) ==
    SelectSeq(prev, LAMBDA m : m.id = tempId)

\* the updater handleSend applies when sendMessage rejects
RollbackMessages(prev, tempId) == SeqFilterOut(prev, tempId)

\* the request without a grounding field
GroundingFieldOmitted(selected) == <<>>

\* doc_ids of the request: selectedDocIds.size > 0 ? Array.from(selectedDocIds)
\* : undefined; <<>> is the absent field, <<ids>> the array with these elements
GroundingField(selected) == IF selected # {} THEN <<selected>> ELSE <<>>

\* handleSend without the test of isSending
maySendAlways(sending) == TRUE

\* handleSend returns at once while isSending
maySend(sending) == ~sending

\* handleSend up to its await, as the limit-th send at most; the input is
\* rendered only when not loading
Send(limit) ==
    /\ conversationId # Null
    /\ maySend(isSending)
    /\ ~isLoading
    /\ now < limit
    /\ now' = now + 1
    /\ messages' = addMessage(messages, TempMessage(conversationId, now + 1))
    /\ isSending' = TRUE
    /\ sendReqs' = sendReqs \cup
          {[conv |-> conversationId, tempId |-> TempId(now + 1),
            doc_ids |-> GroundingField(selectedDocIds),
            resp |-> <<>>]}
    /\ UNCHANGED net
    /\ UNCHANGED pre
    /\ last' = [op |-> "send", tempId |-> TempId(now + 1), requests |-> sendReqs' \ sendReqs]
    /\ UNCHANGED <<conversationId, documents, selectedDocIds,
                   processingDocs, isLoading, refs, pollTimer, timeouts, chan, getReqs, nSwitch, srv>>
    /\ UNCHANGED <<upload, hist>>

HandleSend == Send(MaxSends)

\* handleSend called while an earlier send is unresolved: the early return
HandleSendIgnored ==
    /\ conversationId # Null
    /\ ~isLoading
    /\ ~maySend(isSending)
    /\ UNCHANGED pre
    /\ last' = [op |-> "send_ignored"]
    /\ UNCHANGED <<view, refs, pollTimer, timeouts, chan, getReqs, sendReqs, now,
                   nSwitch, srv, upload, hist, net>>

\* the backend stores the message of a send request and prepares the response
ServerHandleSend(r) ==
    /\ r.resp = <<>>
    /\ nextMsgId <= MaxMsgs
    /\ LET m == [id |-> ServerId(nextMsgId), conversation_id |-> r.conv, role |-> "user"]
       IN /\ serverMsgs' = [serverMsgs EXCEPT ![r.conv] = Append(@, m)]
          /\ sendReqs' = (sendReqs \ {r}) \cup {[r EXCEPT !.resp = <<m>>]}
    /\ nextMsgId' = nextMsgId + 1
    /\ UNCHANGED net
    /\ UNCHANGED pre
    /\ last' = [op |-> "server_send"]
    /\ UNCHANGED <<view, refs, pollTimer, timeouts, chan, getReqs, now,
                   nSwitch, serverDocs, nextDocId>>
    /\ UNCHANGED <<upload, hist>>

\* the backend stores an assistant reply
ServerNewMessage(c) ==
    /\ nextMsgId <= MaxMsgs
    /\ serverMsgs' = [serverMsgs EXCEPT ![c] =
          Append(@, [id |-> ServerId(nextMsgId), conversation_id |-> c,
                     role |-> "assistant"])]
    /\ nextMsgId' = nextMsgId + 1
    /\ UNCHANGED net
    /\ UNCHANGED pre
    /\ last' = [op |-> "server_message"]
    /\ UNCHANGED <<view, refs, pollTimer, timeouts, chan, getReqs, sendReqs,
                   now, nSwitch, serverDocs, nextDocId>>
    /\ UNCHANGED <<upload, hist>>

\* sendMessage resolves: the rest of the try block and the finally
SendResponse(r) ==
    /\ r.resp # <<>>
    /\ sendReqs' = sendReqs \ {r}
    /\ messages' = AckMessages(messages, r.tempId, r.resp[1])
    /\ isSending' = FALSE
    /\ UNCHANGED net
    /\ UNCHANGED pre
    /\ last' = [op |-> "send_response", tempId |-> r.tempId, id |-> r.resp[1].id,
                conv |-> r.conv, raced |-> r.resp[1].id \in Ids(messages)]
    /\ UNCHANGED <<conversationId, documents, selectedDocIds,
                   processingDocs, isLoading, refs, pollTimer, timeouts, chan, getReqs, now, nSwitch, srv>>
    /\ UNCHANGED <<upload, hist>>

\* sendMessage rejects: catch and finally
SendFailure(r) ==
    /\ sendReqs' = sendReqs \ {r}
    /\ messages' = RollbackMessages(messages, r.tempId)
    /\ isSending' = FALSE
    /\ UNCHANGED net
    /\ UNCHANGED pre
    /\ last' = [op |-> "send_failure", tempId |-> r.tempId,
                toasts |-> <<"error">>, requests |-> sendReqs' \ sendReqs]
    /\ UNCHANGED <<conversationId, documents, selectedDocIds,
                   processingDocs, isLoading, refs, pollTimer, timeouts, chan,
                   getReqs, now, nSwitch, srv>>
    /\ UNCHANGED <<upload, hist>>

\* --------------------------------------------------------- push events
\* messageHandler without the test of the role
messageHandlerNoRoleCheck(prev, data) == addMessage(prev, data)

\* messageHandler of connectSocket
messageHandler(prev, data) ==
    IF data.role # "user" THEN addMessage(prev, data) ELSE prev

RECURSIVE DispatchMessage(_, _, _)
\* the socket calls every listener of "new_message" in registration order
DispatchMessage(listeners, prev, data) ==
    IF listeners = <<>> THEN prev
    ELSE DispatchMessage(Tail(listeners), messageHandler(prev, data), data)

ServerMessagesOf(cs) == UNION {{serverMsgs[c][i] : i \in 1..Len(serverMsgs[c])} : c \in cs}

\* a new_message event of a joined room arrives
PushNewMessage(m) ==
    /\ socket = "connected"
    /\ m \in ServerMessagesOf(rooms)
    /\ messages' = DispatchMessage(msgListeners, messages, m)
    /\ UNCHANGED net
    /\ UNCHANGED pre
    /\ last' = [op |-> "push_message", msg |-> m]
    /\ UNCHANGED <<conversationId, documents, selectedDocIds,
                   processingDocs, isLoading, isSending, refs, pollTimer, timeouts,
                   chan, getReqs, sendReqs, now, nSwitch, srv>>
    /\ UNCHANGED <<upload, hist>>

ServerDocIdsOf(cs) == UNION {{serverDocs[c][i].id : i \in 1..Len(serverDocs[c])} : c \in cs}

\* the updater of setProcessingDocs that flips the membership of the document
removeFromProcessingFlips(prev, docId) ==
    IF docId \in prev THEN prev \ {docId} ELSE prev \cup {docId}

\* the updater docProcessedHandler gives setProcessingDocs
removeFromProcessing(prev, docId) == prev \ {docId}

\* docProcessedHandler without the test of data.doc_id
docProcessedHandlerNoIdCheck(st, docId, c) ==
    [processing |-> removeFromProcessing(st.processing, docId),
     timeouts   |-> Append(st.timeouts, c),
     toasts     |-> Append(st.toasts, "success")]

\* docProcessedHandler of the render with conversationId = c, on the state
\* st = [processing, timeouts, toasts]
docProcessedHandler(st, docId, c) ==
    IF docId # Undefined
    THEN [processing |-> removeFromProcessing(st.processing, docId),
          timeouts   |-> Append(st.timeouts, c),
          toasts     |-> Append(st.toasts, "success")]
    ELSE st

RECURSIVE DispatchDocProcessed(_, _, _)
\* the socket calls every listener of "doc_processed" in registration order
DispatchDocProcessed(listeners, st, docId) ==
    IF listeners = <<>> THEN st
    ELSE DispatchDocProcessed(Tail(listeners),
                              docProcessedHandler(st, docId, Head(listeners).conv), docId)

\* a doc_processed event of a joined room arrives
PushDocProcessed(docId) ==
    /\ socket = "connected"
    /\ docId \in ServerDocIdsOf(rooms) \cup {Undefined}
    /\ docId # Undefined => Len(timeouts) + Len(docListeners) <= MaxTimeouts
    /\ LET st == DispatchDocProcessed(docListeners,
                    [processing |-> processingDocs, timeouts |-> timeouts,
                     toasts |-> <<>>], docId)
       IN /\ processingDocs' = st.processing
          /\ timeouts' = st.timeouts
          /\ pollTimer' = PollEffect(conversationId, st.processing)
          /\ UNCHANGED net
          /\ UNCHANGED pre
          /\ last' = [op |-> "push_doc", doc_id |-> docId, toasts |-> st.toasts,
                      handlers |-> Len(docListeners),
                      repeat |-> last.op = "push_doc" /\ last.doc_id = docId]
    /\ hist' = IF docId # Undefined /\ docListeners # <<>>
               THEN [hist EXCEPT !.P = @ \cup {docId}] ELSE hist
    /\ UNCHANGED <<conversationId, messages, documents, selectedDocIds,
                   isLoading, isSending, refs, chan, getReqs, sendReqs, now, nSwitch,
                   srv, upload>>

\* the backend finishes processing a document
ServerDocProcessed(c, i) ==
    /\ serverDocs[c][i].content_snippet = InProgress
    /\ serverDocs' = [serverDocs EXCEPT ![c][i].content_snippet = DoneText]
    /\ UNCHANGED net
    /\ UNCHANGED pre
    /\ last' = [op |-> "server_doc"]
    /\ UNCHANGED <<view, refs, pollTimer, timeouts, chan, getReqs, sendReqs,
                   now, nSwitch, serverMsgs, nextMsgId, nextDocId>>
    /\ UNCHANGED <<upload, hist>>

\* the socket reports "connect"
SocketConnected ==
    /\ socket = "connecting"
    /\ socket' = "connected"
    /\ UNCHANGED net
    /\ UNCHANGED pre
    /\ last' = [op |-> "socket_connected"]
    /\ UNCHANGED <<view, refs, pollTimer, timeouts, rooms, msgListeners,
                   docListeners, getReqs, sendReqs, now, nSwitch, srv>>
    /\ UNCHANGED <<upload, hist>>

\* ------------------------------- the socket under the options of connect()
\* reconnectionAttempts
ReconnectionAttempts == 5

\* a socket that reconnects whatever the number of failed attempts
mayReconnectForever(n) == TRUE

\* reconnection: true with reconnectionAttempts: a further attempt is made
\* while fewer than that many have failed since the connection was lost
mayReconnect(n) == n < ReconnectionAttempts

\* the steps one socket s = [socket, rooms, attempts] can take by itself:
\* the first connection opens or fails, an open connection drops (the server
\* forgets the rooms of the session), a reconnection attempt succeeds or
\* fails, and the socket gives up once no further attempt is allowed
Lifecycle(s) ==
    (IF s.socket = "connecting"
     THEN {[kind |-> "opened", next |-> [s EXCEPT !.socket = "connected"]],
           [kind |-> "open_failed", next |-> [s EXCEPT !.socket = "reconnecting"]]}
     ELSE {})
    \cup
    (IF s.socket = "connected"
     THEN {[kind |-> "dropped",
            next |-> [socket |-> "reconnecting", rooms |-> {}, attempts |-> 0]]}
     ELSE {})
    \cup
    (IF s.socket = "reconnecting" /\ mayReconnect(s.attempts)
     THEN {[kind |-> "reconnected",
            next |-> [s EXCEPT !.socket = "connected", !.attempts = 0]],
           [kind |-> "reconnect_failed", next |-> [s EXCEPT !.attempts = @ + 1]]}
     ELSE {})
    \cup
    (IF s.socket = "reconnecting" /\ ~mayReconnect(s.attempts)
     THEN {[kind |-> "gave_up", next |-> [s EXCEPT !.socket = "closed"]]}
     ELSE {})

SocketKinds == {"open_failed", "dropped", "reconnected", "reconnect_failed", "gave_up"}

\* the socket SocketService holds takes a step other than its first opening
SocketStep(kind) ==
    /\ kind \in SocketKinds
    /\ \E t \in Lifecycle([socket |-> socket, rooms |-> rooms, attempts |-> attempts]) :
          /\ t.kind = kind
          /\ socket' = t.next.socket
          /\ rooms' = t.next.rooms
          /\ attempts' = t.next.attempts
    /\ UNCHANGED pre
    /\ last' = [op |-> "socket", kind |-> kind]
    /\ UNCHANGED <<view, refs, pollTimer, timeouts, msgListeners, docListeners,
                   getReqs, sendReqs, now, nSwitch, srv, upload, hist, abandoned>>

\* the i-th socket that connect() has replaced takes a step
AbandonedStep(i) ==
    /\ i \in 1..Len(abandoned)
    /\ \E t \in Lifecycle(abandoned[i]) :
          /\ abandoned' = [abandoned EXCEPT ![i] = t.next]
          /\ UNCHANGED pre
          /\ last' = [op |-> "abandoned_socket", kind |-> t.kind, index |-> i]
    /\ UNCHANGED <<view, refs, pollTimer, timeouts, chan, getReqs, sendReqs, now,
                   nSwitch, srv, upload, hist, attempts>>

\* Selections, loads and the life of the sockets.
NextChannel ==
    \/ \E id \in Convs \cup {Null} : SelectConversation(id)
    \/ \E req \in BagToSet(getReqs) : ServerGet(req)
    \/ \E req \in BagToSet(getReqs) : GetResponse(req)
    \/ \E req \in BagToSet(getReqs) : GetFailure(req)
    \/ SocketConnected
    \/ \E kind \in SocketKinds : SocketStep(kind)
    \/ \E i \in 1..Len(abandoned) : AbandonedStep(i)

SpecChannel == Init /\ [][NextChannel]_vars

\* ------------------------------------------------- grounding selection
toggleDocumentSelection(prev, docId) ==
    IF docId \in prev THEN prev \ {docId} ELSE prev \cup {docId}

\* the chip's onClick without the test of isReady
onClickChipNoGate(prev, doc) == toggleDocumentSelection(prev, doc.id)

\* onClick of a document chip: isReady && toggleDocumentSelection(doc.id)
onClickChip(prev, doc) ==
    IF isDocumentReady(doc) THEN toggleDocumentSelection(prev, doc.id) ELSE prev

\* the user clicks the i-th chip of the documents bar
ClickDocument(i) ==
    /\ conversationId # Null
    /\ ~isLoading
    /\ selectedDocIds' = onClickChip(selectedDocIds, documents[i])
    /\ UNCHANGED net
    /\ UNCHANGED pre
    /\ last' = [op |-> "toggle", index |-> i]
    /\ UNCHANGED <<conversationId, messages, documents,
                   processingDocs, isLoading, isSending, refs, pollTimer, timeouts,
                   chan, getReqs, sendReqs, now, nSwitch, srv, upload, hist>>

\* the Clear button: setSelectedDocIds(new Set())
ClearSelection ==
    /\ conversationId # Null
    /\ ~isLoading
    /\ documents # <<>>
    /\ selectedDocIds # {}
    /\ selectedDocIds' = {}
    /\ UNCHANGED net
    /\ UNCHANGED pre
    /\ last' = [op |-> "clear_selection"]
    /\ UNCHANGED <<conversationId, messages, documents,
                   processingDocs, isLoading, isSending, refs, pollTimer, timeouts,
                   chan, getReqs, sendReqs, now, nSwitch, srv, upload, hist>>

Next ==
    \/ \E id \in Convs \cup {Null} : SelectConversation(id)
    \/ \E req \in BagToSet(getReqs) : ServerGet(req)
    \/ \E req \in BagToSet(getReqs) : GetResponse(req)
    \/ \E req \in BagToSet(getReqs) : GetFailure(req)
    \/ PollTick
    \/ \E i \in 1..Len(timeouts) : DelayedRefetch(i)
    \/ HandleSend
    \/ \E r \in sendReqs : ServerHandleSend(r)
    \/ \E c \in Convs : ServerNewMessage(c)
    \/ \E r \in sendReqs : SendResponse(r)
    \/ \E r \in sendReqs : SendFailure(r)
    \/ \E m \in ServerMessagesOf(rooms) : PushNewMessage(m)
    \/ \E d \in DocIds \cup {Undefined} : PushDocProcessed(d)
    \/ \E c \in Convs : \E i \in 1..Len(serverDocs[c]) : ServerDocProcessed(c, i)
    \/ SocketConnected
    \/ \E i \in 1..Len(documents) : ClickDocument(i)
    \/ ClearSelection

Spec == Init /\ [][Next]_vars

\* Selections with the requests they cause, which succeed or fail, and new
\* messages on the backend.
NextPreload ==
    \/ NextPreloadLive
    \/ \E req \in BagToSet(getReqs) : GetFailure(req)
    \/ \E req \in BagToSet(atomReqs) : AtomFailure(req)
    \/ \E c \in Convs : ServerNewMessage(c)

SpecPreload == Init /\ [][NextPreload]_vars

\* Sending: selections, loads and polls, and up to MaxSendCalls sends with the
\* calls of handleSend made while one is unresolved.
NextSend ==
    \/ \E id \in Convs \cup {Null} : SelectConversation(id)
    \/ \E req \in BagToSet(getReqs) : ServerGet(req)
    \/ \E req \in BagToSet(getReqs) : GetResponse(req)
    \/ \E req \in BagToSet(getReqs) : GetFailure(req)
    \/ PollTick
    \/ Send(MaxSendCalls)
    \/ HandleSendIgnored
    \/ \E r \in sendReqs : ServerHandleSend(r)
    \/ \E r \in sendReqs : SendResponse(r)
    \/ \E r \in sendReqs : SendFailure(r)

SpecSend == Init /\ [][NextSend]_vars

\* ------------------------------------------- documents: upload and removal
\* the loop that stops at the first file that is not a PDF
SkipNonPdfAborting(files) ==
    IF files = <<>> THEN [rest |-> <<>>, toasts |-> <<>>]
    ELSE IF Head(files) = "application/pdf" THEN [rest |-> files, toasts |-> <<>>]
    ELSE [rest |-> <<>>, toasts |-> <<"warning">>]

RECURSIVE SkipNonPdf(_)
\* the iterations of the for loop up to the first PDF file; each file of
\* another type raises a warning toast and the loop goes on
SkipNonPdf(files) ==
    IF files = <<>> THEN [rest |-> <<>>, toasts |-> <<>>]
    ELSE IF Head(files) = "application/pdf" THEN [rest |-> files, toasts |-> <<>>]
    ELSE LET r == SkipNonPdf(Tail(files))
         IN [rest |-> r.rest, toasts |-> <<"warning">> \o r.toasts]

\* handleFileUpload suspended at `await documentsApi.upload(conversationId, file)`
\* of the first file of files, in the render with conversationId = c
\* g records the batch the handler was called with, the upload requests it
\* has issued and the warnings it has raised
Suspended(c, files, g) ==
    IF files = <<>> THEN <<>>
    ELSE <<[conv |-> c, files |-> Tail(files), resp |-> <<>>, batch |-> g]>>

\* the record of a batch after the loop has run up to r.rest
Advance(g, r) ==
    [files    |-> g.files,
     requests |-> g.requests + (IF r.rest = <<>> THEN 0 ELSE 1),
     warnings |-> g.warnings + Len(r.toasts)]

Files == UNION {[1..n -> FileTypes] : n \in 1..MaxFiles}

\* the selections of up to MaxBatch files (the input has `multiple`)
Batches == UNION {[1..n -> FileTypes] : n \in 1..MaxBatch}

\* onChange of the file input; the button is disabled while isUploading
HandleFileUpload(files) ==
    /\ conversationId # Null
    /\ ~isLoading
    /\ upload = <<>>
    /\ LET r == SkipNonPdf(files)
           g == Advance([files |-> files, requests |-> 0, warnings |-> 0], r)
       IN /\ upload' = Suspended(conversationId, r.rest, g)
          /\ UNCHANGED net
          /\ UNCHANGED pre
          /\ last' = [op |-> "upload", toasts |-> r.toasts, done |-> r.rest = <<>>,
                      batch |-> g]
    /\ UNCHANGED <<view, refs, pollTimer, timeouts, chan, getReqs, sendReqs, now,
                   nSwitch, srv, hist>>

\* the backend stores the file as a new document, to be processed
ServerUpload ==
    /\ upload # <<>>
    /\ upload[1].resp = <<>>
    /\ nextDocId <= MaxUploads + 1
    /\ LET doc == [id |-> DocIdOf(nextDocId), conversation_id |-> upload[1].conv,
                   content_snippet |-> InProgress, embedding |-> FALSE]
       IN /\ serverDocs' = [serverDocs EXCEPT ![upload[1].conv] = Append(@, doc)]
          /\ upload' = <<[upload[1] EXCEPT !.resp = <<doc>>]>>
    /\ nextDocId' = nextDocId + 1
    /\ UNCHANGED net
    /\ UNCHANGED pre
    /\ last' = [op |-> "server_upload"]
    /\ UNCHANGED <<view, refs, pollTimer, timeouts, chan, getReqs, sendReqs, now,
                   nSwitch, serverMsgs, nextMsgId, hist>>

\* the updater of setDocuments with a test for a document already present
appendDocumentUnlessPresent(prev, doc) ==
    IF \E i \in 1..Len(prev) : prev[i].id = doc.id THEN prev ELSE Append(prev, doc)

\* the updater of setDocuments that forgets the previous list
appendDocumentReplacing(prev, doc) == <<doc>>

\* setDocuments((prev) => [...prev, doc])
appendDocument(prev, doc) == Append(prev, doc)

\* the updater of setProcessingDocs that leaves the set as it is
addToProcessingOmitted(prev, docId) == prev

\* setProcessingDocs((prev) => new Set(prev).add(doc.id))
addToProcessing(prev, docId) == prev \cup {docId}

\* documentsApi.upload resolves: the rest of the iteration, and the loop
\* up to the next PDF file or to the finally block
UploadResponse ==
    /\ upload # <<>>
    /\ upload[1].resp # <<>>
    /\ LET doc == upload[1].resp[1]
           r   == SkipNonPdf(upload[1].files)
           g   == Advance(upload[1].batch, r)
       IN /\ documents' = appendDocument(documents, doc)
          /\ processingDocs' = addToProcessing(processingDocs, doc.id)
          /\ pollTimer' = PollEffect(conversationId, addToProcessing(processingDocs, doc.id))
          /\ upload' = Suspended(upload[1].conv, r.rest, g)
          /\ hist' = [hist EXCEPT !.U = @ \cup {doc.id},
                                  !.fresh = IF hist.U = {} THEN processingDocs = {} ELSE @,
                                  !.ordered = @ /\ doc.id \notin hist.P]
          /\ UNCHANGED net
          /\ UNCHANGED pre
          /\ last' = [op |-> "upload_response", doc_id |-> doc.id, conv |-> upload[1].conv,
                      toasts |-> <<"info">> \o r.toasts, done |-> r.rest = <<>>,
                      batch |-> g]
    /\ UNCHANGED <<conversationId, messages, selectedDocIds, isLoading, isSending,
                   refs, timeouts, chan, getReqs, sendReqs, now, nSwitch, srv>>

\* a catch inside the loop, which goes on with the files left
filesAfterFailureKept(files) == files

\* the catch is outside the for loop: no file is left to be handled
filesAfterFailure(files) == <<>>

\* documentsApi.upload rejects: catch and finally; the files left are dropped
UploadFailure ==
    /\ upload # <<>>
    /\ LET r == SkipNonPdf(filesAfterFailure(upload[1].files))
       IN /\ upload' = Suspended(upload[1].conv, r.rest, Advance(upload[1].batch, r))
          /\ UNCHANGED pre
          /\ last' = [op |-> "upload_failure", toasts |-> <<"error">> \o r.toasts,
                      batch |-> upload[1].batch, left |-> upload[1].files]
    /\ UNCHANGED net
    /\ UNCHANGED <<view, refs, pollTimer, timeouts, chan, getReqs, sendReqs, now,
                   nSwitch, srv, hist>>

\* handleRemoveDocument(docId) of the i-th chip
HandleRemoveDocument(i) ==
    /\ conversationId # Null
    /\ ~isLoading
    /\ documents' = SeqFilterOut(documents, documents[i].id)
    /\ selectedDocIds' = selectedDocIds \ {documents[i].id}
    /\ UNCHANGED net
    /\ UNCHANGED pre
    /\ last' = [op |-> "remove", doc_id |-> documents[i].id]
    /\ UNCHANGED <<conversationId, messages, processingDocs, isLoading, isSending,
                   refs, pollTimer, timeouts, chan, getReqs, sendReqs, now, nSwitch,
                   srv, upload, hist>>

\* The uploads of a view that is mounted on conversation B and stays there:
\* its load, polls, and batches of up to MaxBatch files.
NextUpload ==
    \/ nSwitch = 0 /\ SelectConversation("B")
    \/ \E req \in BagToSet(getReqs) : ServerGet(req)
    \/ \E req \in BagToSet(getReqs) : GetResponse(req)
    \/ \E req \in BagToSet(getReqs) : GetFailure(req)
    \/ BagCardinality(getReqs) < MaxDocLoads /\ PollTick
    \/ \E files \in Batches : HandleFileUpload(files)
    \/ ServerUpload
    \/ UploadResponse
    \/ UploadFailure

SpecUpload == Init /\ [][NextUpload]_vars

\* The document tracker of a view that is mounted on conversation B, a
\* conversation without documents, and stays there: loads, polls, push
\* events, uploads and removals, with one load and one delayed re-fetch
\* outstanding at a time.
NextDocs ==
    \/ nSwitch = 0 /\ SelectConversation("B")
    \/ \E req \in BagToSet(getReqs) : ServerGet(req)
    \/ \E req \in BagToSet(getReqs) : GetResponse(req)
    \/ \E req \in BagToSet(getReqs) : GetFailure(req)
    \/ BagCardinality(getReqs) < MaxDocLoads /\ PollTick
    \/ BagCardinality(getReqs) < MaxDocLoads /\ \E i \in 1..Len(timeouts) : DelayedRefetch(i)
    \/ Len(timeouts) < MaxDocTimeouts /\ \E d \in DocIds \cup {Undefined} : PushDocProcessed(d)
    \/ \E c \in Convs : \E i \in 1..Len(serverDocs[c]) : ServerDocProcessed(c, i)
    \/ SocketConnected
    \/ \E files \in Files : HandleFileUpload(files)
    \/ ServerUpload
    \/ UploadResponse
    \/ UploadFailure
    \/ \E i \in 1..Len(documents) : HandleRemoveDocument(i)

SpecDocs == Init /\ [][NextDocs]_vars

\* The loading of conversations whose backend documents are arbitrary:
\* selections, loads, polls and the backend finishing documents.
NextIngest ==
    \/ \E id \in Convs \cup {Null} : SelectConversation(id)
    \/ \E req \in BagToSet(getReqs) : ServerGet(req)
    \/ \E req \in BagToSet(getReqs) : GetResponse(req)
    \/ \E req \in BagToSet(getReqs) : GetFailure(req)
    \/ PollTick
    \/ \E c \in Convs : \E i \in 1..Len(serverDocs[c]) : ServerDocProcessed(c, i)

SpecIngest == InitIngest /\ [][NextIngest]_vars

\* ------------------------------------------------------------------------
\* The second ConversationWindow of ConversationWindow.tsx (the component
\* without document tracking): its handlers over the same state.
\* ------------------------------------------------------------------------
\* the listener its connectSocket registers: setMessages((prev) => [...prev, data])
legacyMessageHandler(prev, data) == Append(prev, data)

RECURSIVE LegacyDispatchMessage(_, _, _)
LegacyDispatchMessage(listeners, prev, data) ==
    IF listeners = <<>> THEN prev
    ELSE LegacyDispatchMessage(Tail(listeners), legacyMessageHandler(prev, data), data)

\* its connectSocket: connect, join, onMessage(anonymous listener)
legacyConnectSocket(ch, c) ==
    onMessage(joinConversation(connect(ch), c), Listener("legacyMessageHandler", c))

\* its mount effect: the cleanup only leaves the room
LegacySelectConversation(id) ==
    /\ nSwitch < MaxSwitches
    /\ id # conversationId
    /\ nSwitch' = nSwitch + 1
    /\ conversationId' = id
    /\ LET ch == IF conversationId # Null
                 THEN leaveConversation(Channel, conversationId) ELSE Channel
       IN IF id # Null
          THEN /\ StartLoad(id)
               /\ SetChannel(legacyConnectSocket(ch, id))
               /\ abandoned' = abandoned \o Orphan(ch, attempts)
               /\ attempts' = IF socket = "connected" THEN attempts ELSE 0
          ELSE /\ SetChannel(ch)
               /\ UNCHANGED <<isLoading, getReqs, net>>
    /\ SelectPreload(id)
    /\ last' = [op |-> "select", from |-> conversationId, to |-> id]
    /\ UNCHANGED <<messages, documents, selectedDocIds, processingDocs, isSending,
                   refs, pollTimer, timeouts, sendReqs, now, srv>>
    /\ UNCHANGED <<upload, hist>>

\* its loadConversation after the await
LegacyGetResponse(req) ==
    /\ req.snap # <<>>
    /\ getReqs' = getReqs (-) One(req)
    /\ messages' = req.snap[1].messages
    /\ documents' = req.snap[1].documents
    /\ isLoading' = FALSE
    /\ UNCHANGED net
    /\ UNCHANGED pre
    /\ last' = [op |-> "get_response", conv |-> req.conv]
    /\ UNCHANGED <<conversationId, selectedDocIds, processingDocs, isSending, refs,
                   pollTimer, timeouts, chan, sendReqs, now, nSwitch, srv>>
    /\ UNCHANGED <<upload, hist>>

LegacyPushNewMessage(m) ==
    /\ socket = "connected"
    /\ Len(messages) + Len(msgListeners) <= MaxAppended
    /\ m \in ServerMessagesOf(rooms)
    /\ messages' = LegacyDispatchMessage(msgListeners, messages, m)
    /\ UNCHANGED net
    /\ UNCHANGED pre
    /\ last' = [op |-> "push_message", msg |-> m]
    /\ UNCHANGED <<conversationId, documents, selectedDocIds, processingDocs,
                   isLoading, isSending, refs, pollTimer, timeouts, chan, getReqs,
                   sendReqs, now, nSwitch, srv>>
    /\ UNCHANGED <<upload, hist>>

\* its handleSend up to the await
LegacyHandleSend ==
    /\ conversationId # Null
    /\ ~isSending
    /\ ~isLoading
    /\ now < MaxSends
    /\ now' = now + 1
    /\ messages' = Append(messages, TempMessage(conversationId, now + 1))
    /\ isSending' = TRUE
    /\ sendReqs' = sendReqs \cup
          {[conv |-> conversationId, tempId |-> TempId(now + 1), doc_ids |-> <<>>,
            resp |-> <<>>]}
    /\ UNCHANGED net
    /\ UNCHANGED pre
    /\ last' = [op |-> "send", tempId |-> TempId(now + 1)]
    /\ UNCHANGED <<conversationId, documents, selectedDocIds, processingDocs,
                   isLoading, refs, pollTimer, timeouts, chan, getReqs, nSwitch, srv>>
    /\ UNCHANGED <<upload, hist>>

\* its sendMessage resolves: only the finally block runs
LegacySendResponse(r) ==
    /\ r.resp # <<>>
    /\ sendReqs' = sendReqs \ {r}
    /\ isSending' = FALSE
    /\ UNCHANGED net
    /\ UNCHANGED pre
    /\ last' = [op |-> "send_response", tempId |-> r.tempId]
    /\ UNCHANGED <<conversationId, messages, documents, selectedDocIds,
                   processingDocs, isLoading, refs, pollTimer, timeouts, chan,
                   getReqs, now, nSwitch, srv>>
    /\ UNCHANGED <<upload, hist>>

NextLegacy ==
    \/ \E id \in Convs \cup {Null} : LegacySelectConversation(id)
    \/ \E req \in BagToSet(getReqs) : ServerGet(req)
    \/ \E req \in BagToSet(getReqs) : LegacyGetResponse(req)
    \/ \E req \in BagToSet(getReqs) : GetFailure(req)
    \/ LegacyHandleSend
    \/ \E r \in sendReqs : ServerHandleSend(r)
    \/ \E c \in Convs : ServerNewMessage(c)
    \/ \E r \in sendReqs : LegacySendResponse(r)
    \/ \E r \in sendReqs : SendFailure(r)
    \/ \E m \in ServerMessagesOf(rooms) : LegacyPushNewMessage(m)
    \/ SocketConnected

SpecLegacy == Init /\ [][NextLegacy]_vars

\* ------------------------------------------------------------------------
\* Properties
\* ------------------------------------------------------------------------

\* C1: in every reachable state the message list holds no two messages with
\* the same identifier.
C1_MessageUniqueness == NoDuplicateIds(messages)

\* C2: once the response of a successful send has been applied, the list
\* holds no message with the send's temporary identifier and exactly one
\* with the server-issued identifier.
C2_OptimisticThenAck ==
    last.op = "send_response" =>
        /\ \A i \in 1..Len(messages) : messages[i].id # last.tempId
        /\ Cardinality({i \in 1..Len(messages) : messages[i].id = last.id}) = 1

\* the response was applied after a load had already brought the message in
C2_Witness == last.op = "send_response" /\ last.raced

\* C3: a response to a request issued for a conversation that is no longer
\* the active one leaves the message list, the document list and the
\* processing set unchanged.
C3_StaleResponseDiscarded ==
    [][(/\ last'.op \in {"get_response", "send_response"}
        /\ conversationId \in Convs
        /\ last'.conv # conversationId)
       => UNCHANGED <<messages, documents, processingDocs>>]_vars

ListenersOfOthers(listeners) ==
    {i \in 1..Len(listeners) : listeners[i].conv # conversationId}

\* C4: no listener registered on behalf of a conversation that is no longer
\* active remains attached, for new_message and for doc_processed alike, and
\* no poll timer of such a conversation is armed.
C4_Teardown ==
    (last.op = "select" /\ last.from # Null /\ last.to # Null) =>
        /\ ListenersOfOthers(msgListeners) = {}
        /\ ListenersOfOthers(docListeners) = {}
        /\ pollTimer \in {Null, conversationId}

Pos(step, steps) ==
    IF \E i \in 1..Len(steps) : steps[i] = step
    THEN CHOOSE i \in 1..Len(steps) : steps[i] = step
    ELSE 0

Before(a, b, steps) ==
    Pos(a, steps) # 0 /\ Pos(b, steps) # 0 => Pos(a, steps) < Pos(b, steps)

\* C5: a switch of the active conversation cancels the poll timer, detaches
\* the handlers, leaves the previous room, clears the store and then loads
\* the new conversation and joins its room, in this order.
C5_SwitchOrdering ==
    (last.op = "select" /\ last.from # Null) =>
        /\ Before("clearInterval", "offMessage", last.steps)
        /\ Before("clearInterval", "offDocumentProcessed", last.steps)
        /\ Before("offMessage", "leaveRoom", last.steps)
        /\ Before("offDocumentProcessed", "leaveRoom", last.steps)
        /\ Before("leaveRoom", "loadConversation", last.steps)
        /\ Before("leaveRoom", "joinRoom", last.steps)
        /\ messages = <<>> /\ documents = <<>> /\ processingDocs = {}

\* C6: a poll timer is armed only while the processing set is non-empty and
\* a conversation is active, it belongs to the active conversation (so it is
\* canceled on every switch and teardown), and a poll tick fetches the
\* active conversation.
C6_PollTimerScope ==
    /\ pollTimer # Null =>
          processingDocs # {} /\ conversationId # Null /\ pollTimer = conversationId
    /\ last.op = "poll_tick" => last.conv = conversationId

\* a poll tick after the conversation has been switched
C6_Witness == last.op = "poll_tick" /\ nSwitch >= 2 /\ pollTimer # Null

\* C7: a pushed user message never changes the message list; a pushed
\* assistant or system message is appended at the end when its identifier is
\* absent and changes nothing when it is present.
C7_PushSuppression ==
    [][last'.op = "push_message" =>
        messages' = IF last'.msg.role = "user" THEN messages
                    ELSE IF last'.msg.id \in Ids(messages) THEN messages
                    ELSE messages \o <<last'.msg>>]_vars

\* a pushed assistant message is the last message of the list
C7_Witness ==
    /\ last.op = "push_message"
    /\ last.msg.role = "assistant"
    /\ messages # <<>>
    /\ messages[Len(messages)] = last.msg

\* C8: when the send request fails the temporary message is removed, every
\* other message stays as it was, one error notification is raised and no
\* send request is issued.
C8_SendFailureRollback ==
    [][last'.op = "send_failure" =>
        /\ messages' = SelectSeq(messages, LAMBDA m : m.id # last'.tempId)
        /\ last'.tempId \notin Ids(messages')
        /\ last'.toasts = <<"error">>
        /\ last'.requests = {}
        /\ Cardinality(sendReqs') = Cardinality(sendReqs) - 1]_vars

\* a failed send that left another message in the list
C8_Witness ==
    /\ last.op = "send_failure"
    /\ messages # <<>>
    /\ sendReqs = {}

\* C9: a send puts exactly one message in the list, with a temporary
\* identifier and role user, in the step that issues the request, so it is
\* there while the request is unresolved.
C9_OptimisticVisibility ==
    [][last'.op = "send" =>
        /\ Len(messages') = Len(messages) + 1
        /\ SubSeq(messages', 1, Len(messages)) = messages
        /\ LET m == messages'[Len(messages')]
           IN /\ IsTempId(m.id)
              /\ m.id = last'.tempId
              /\ m.role = "user"
              /\ \E r \in sendReqs' \ sendReqs : r.tempId = m.id /\ r.resp = <<>>]_vars

\* the temporary message is in the list while the request is in flight
C9_Witness ==
    /\ last.op = "send"
    /\ \E r \in sendReqs : r.tempId \in Ids(messages)

\* C10: after a change of the active conversation the grounding selection
\* is empty.
C10_SelectionCleared ==
    last.op = "select" => selectedDocIds = {}

\* C11: every identifier of the grounding selection is the identifier of a
\* document of the document list whose derived state is Ready.
C11_SelectionInvariant ==
    \A id \in selectedDocIds :
        \E i \in 1..Len(documents) :
            documents[i].id = id /\ isDocumentReady(documents[i])

\* C12: a click on a document that is not Ready leaves the grounding
\* selection unchanged; a click on a Ready document adds its identifier when
\* absent and removes it when present, so that a second click restores the
\* set.
C12_SelectionGating ==
    [][last'.op = "toggle" =>
        LET doc == documents[last'.index]
        IN IF isDocumentReady(doc)
           THEN /\ selectedDocIds' = IF doc.id \in selectedDocIds
                                     THEN selectedDocIds \ {doc.id}
                                     ELSE selectedDocIds \cup {doc.id}
                /\ onClickChip(selectedDocIds', doc) = selectedDocIds
           ELSE selectedDocIds' = selectedDocIds]_vars

\* a click on a document that is not Ready, made while the selection is not empty
C12_Witness ==
    /\ last.op = "toggle"
    /\ ~isDocumentReady(documents[last.index])
    /\ selectedDocIds # {}

\* C13: the send request carries exactly the identifiers of the grounding
\* selection of the moment handleSend is called, and no grounding field when
\* the selection is empty; no later step changes the field of a request.
C13_GroundingAtSendTime ==
    [][/\ last'.op = "send" =>
            \E r \in sendReqs' \ sendReqs :
                /\ sendReqs' = sendReqs \cup {r}
                /\ r.doc_ids = IF selectedDocIds = {} THEN <<>> ELSE <<selectedDocIds>>
       /\ \A r \in sendReqs : \A q \in sendReqs' :
            q.tempId = r.tempId => q.doc_ids = r.doc_ids]_vars

\* a request in flight carries a selection that has been changed since
C13_Witness ==
    \E r \in sendReqs : r.doc_ids # <<>> /\ r.doc_ids[1] # selectedDocIds

\* C14: a doc_processed event that carries a document identifier removes the
\* identifier from the processing set in the same step and schedules exactly
\* one delayed re-fetch.
C14_PushProcessedHandling ==
    [][(last'.op = "push_doc" /\ last'.doc_id # Undefined) =>
        /\ last'.doc_id \notin processingDocs'
        /\ Len(timeouts') = Len(timeouts) + 1]_vars

\* C15: a doc_processed event without a document identifier changes neither
\* the messages, the documents, the processing set nor the selection, and
\* schedules no re-fetch.
C15_MalformedPushIgnored ==
    [][(last'.op = "push_doc" /\ last'.doc_id = Undefined) =>
        /\ UNCHANGED <<messages, documents, processingDocs, selectedDocIds,
                       timeouts, getReqs, pollTimer>>
        /\ last'.toasts = <<>>]_vars

\* a malformed event reached a handler while a document was processing
C15_Witness ==
    /\ last.op = "push_doc"
    /\ last.doc_id = Undefined
    /\ last.handlers >= 1
    /\ processingDocs # {}

\* C16: a doc_processed event applied right after the same event leaves the
\* document list and the processing set as the first application left them.
C16_PushIdempotence ==
    [][(last'.op = "push_doc" /\ last'.repeat) =>
        /\ documents' = documents
        /\ processingDocs' = processingDocs]_vars

\* the same event, with an identifier, was handled twice in a row
C16_Witness ==
    /\ last.op = "push_doc"
    /\ last.repeat
    /\ last.doc_id # Undefined
    /\ last.handlers >= 1

\* C17: once the uploads of the documents U have been accepted and
\* doc_processed events have then been handled for a subset P of U and for
\* no other document, the processing set is U \ P, and the poll timer is
\* armed while that set is not empty.
C17_ProcessingSetConvergence ==
    (/\ conversationId # Null
     /\ hist.U # {}
     /\ hist.P \subseteq hist.U
     /\ hist.fresh
     /\ hist.ordered)
    => /\ processingDocs = hist.U \ hist.P
       /\ processingDocs # {} => pollTimer = conversationId

\* C17, amended: the same, as long as no load response (of a poll, of a
\* delayed re-fetch or of the initial load) has been applied since the first
\* of the uploads was accepted.
C17_ConvergenceBetweenLoads ==
    (/\ conversationId # Null
     /\ hist.U # {}
     /\ hist.P \subseteq hist.U
     /\ hist.fresh
     /\ hist.ordered
     /\ hist.noLoad)
    => /\ processingDocs = hist.U \ hist.P
       /\ processingDocs # {} => pollTimer = conversationId

\* two uploads accepted, an event handled for one of them, polling goes on
C17_Witness ==
    /\ hist.fresh /\ hist.ordered /\ hist.noLoad
    /\ hist.P # {}
    /\ hist.P \subseteq hist.U
    /\ hist.U \ hist.P # {}
    /\ processingDocs = hist.U \ hist.P
    /\ pollTimer # Null

\* C18: once the re-fetches and loads under way have completed, every
\* document of the list whose derived state is Processing is in the
\* processing set and the poll timer of the active conversation is armed.
C18_UnresolvedKeepPolled ==
    (conversationId # Null /\ timeouts = <<>> /\ getReqs = EmptyBag) =>
        \A i \in 1..Len(documents) :
            IsProcessing(documents[i]) =>
                /\ documents[i].id \in processingDocs
                /\ pollTimer = conversationId

\* C19: while the conversation stays the same, no step takes a document of
\* the list whose derived state is Ready to the derived state Processing.
C19_NoReverseTransition ==
    [][conversationId' = conversationId =>
        \A i \in 1..Len(documents) : \A j \in 1..Len(documents') :
            (documents[i].id = documents'[j].id /\ isDocumentReady(documents[i]))
                => ~IsProcessing(documents'[j])]_vars

\* C20: the document list holds no two documents with the same identifier.
C20_DocumentUniqueness == NoDuplicateIds(documents)

\* ------------------------------------------------------------------------
\* Readiness, ingest and its algebra (SpecIngest)

\* C21: for every marker (absent, empty, the in-progress sentinel, a text with
\* the done prefix, any other text) and either embedding presence, a document
\* of the view is ready exactly when its marker has the done prefix or its
\* embedding is present, and the load does not put it in the processing set;
\* no document is both processing and ready.
C21_ReadinessPredicate ==
    \A i \in 1..Len(documents) :
        LET doc  == documents[i]
            done == doc.content_snippet \in {DonePrefix, DoneText}
        IN /\ isDocumentReady(doc) <=> ((done \/ doc.embedding) /\ ~IsProcessing(doc))
           /\ ~(IsProcessing(doc) /\ isDocumentReady(doc))

\* C21's case: the view holds a document with the sentinel and an embedding,
\* which is not ready, next to one with another text and an embedding, which is
C21_Witness ==
    /\ Len(documents) = 2
    /\ documents[1].content_snippet = InProgress /\ documents[1].embedding
    /\ ~isDocumentReady(documents[1])
    /\ documents[2].content_snippet = OtherText /\ documents[2].embedding
    /\ isDocumentReady(documents[2])

\* the position of the last document of the list that has this identifier
LastIndexOf(docs, id) ==
    CHOOSE j \in 1..Len(docs) :
        /\ docs[j].id = id
        /\ \A k \in (j + 1)..Len(docs) : docs[k].id # id

\* C22: a successful load leaves the snapshot's messages in order, the
\* snapshot's documents with one entry per identifier, the last occurrence of
\* each, and as processing set exactly the identifiers of those whose state is
\* Processing; nothing of the previous view remains.
C22_LoadReplacesView ==
    [][last'.op = "get_response" =>
        LET snap == last'.snap
        IN /\ messages' = snap.messages
           /\ NoDuplicateIds(documents')
           /\ {documents'[i].id : i \in 1..Len(documents')}
                 = {snap.documents[j].id : j \in 1..Len(snap.documents)}
           /\ \A i \in 1..Len(documents') :
                 documents'[i] = snap.documents[LastIndexOf(snap.documents, documents'[i].id)]
           /\ processingDocs'
                 = {documents'[i].id : i \in {k \in 1..Len(documents') : IsProcessing(documents'[k])}}
           /\ ~isLoading']_vars

\* C22's case: a load has applied a snapshot that repeats an identifier with two
\* different records, over a view that held something else
C22_Witness ==
    /\ last.op = "get_response"
    /\ Len(last.snap.documents) = 2
    /\ last.snap.documents[1].id = last.snap.documents[2].id
    /\ last.snap.documents[1].content_snippet = InProgress
    /\ last.snap.documents[2].content_snippet = DoneText
    /\ documents = <<last.snap.documents[2]>>
    /\ processingDocs = {}

\* C23: a load that applies the snapshot the previous load applied changes
\* neither the message list, nor the document list, nor the processing set.
C23_IngestIdempotence ==
    [][(last.op = "get_response" /\ last'.op = "get_response" /\ last'.snap = last.snap)
        => UNCHANGED <<messages, documents, processingDocs>>]_vars

\* C23's case: two loads in a row have applied the same snapshot, which holds a
\* processing document and a repeated identifier
C23_Witness ==
    /\ last.op = "get_response"
    /\ last.repeat
    /\ Len(last.snap.documents) = 2
    /\ last.snap.documents[1].id = last.snap.documents[2].id
    /\ processingDocs # {}

\* the message list after the push of m is handled and then the response to
\* req is applied: setMessages(data.messages) ignores the list it replaces
PushThenLoad(req, m) == req.snap[1].messages

\* the message list after the response to req is applied and then the push of
\* m is handled
LoadThenPush(req, m) == DispatchMessage(msgListeners, req.snap[1].messages, m)

\* C24: whenever a new_message push of an assistant message of the active
\* conversation and a load response for it are both deliverable, handling
\* them in either order ends in the same message list.
C24_OrderIndependence ==
    \A req \in BagToSet(getReqs) : \A m \in ServerMessagesOf(rooms) :
        (/\ socket = "connected"
         /\ msgListeners # <<>>
         /\ req.snap # <<>>
         /\ req.conv = conversationId
         /\ m.conversation_id = conversationId
         /\ m.role = "assistant")
        => PushThenLoad(req, m) = LoadThenPush(req, m)

\* ------------------------------------------------------------------------
\* The push channel (SpecChannel)

\* the connections to the push source that are open
OpenConnections ==
    (IF socket = "connected" THEN 1 ELSE 0)
    + Cardinality({i \in 1..Len(abandoned) : abandoned[i].socket = "connected"})

\* C25: after any sequence of connect() calls, those made while an earlier
\* connection is still connecting or reconnecting included, at most one
\* connection to the push source is open.
C25_SingleConnection == OpenConnections <= 1

\* C26: on every open connection the client is in at most one room, and a
\* switch emits the leave of the previous conversation before the join of the
\* new one.
C26_RoomScoping ==
    /\ Cardinality(rooms) <= 1
    /\ \A i \in 1..Len(abandoned) : Cardinality(abandoned[i].rooms) <= 1
    /\ last.op = "select" => Before("leaveRoom", "joinRoom", last.steps)

\* C26's case: a switch from A to B on a live connection, which is now in
\* room B only
C26_Witness ==
    /\ last.op = "select" /\ last.from = "A" /\ last.to = "B"
    /\ Pos("leaveRoom", last.steps) # 0 /\ Pos("joinRoom", last.steps) # 0
    /\ socket = "connected"
    /\ rooms = {"B"}

\* C30: no socket makes more than ReconnectionAttempts reconnection attempts
\* after its connection is lost, and a socket that has given up makes none.
C30_BoundedReconnection ==
    [][/\ attempts' <= ReconnectionAttempts
       /\ \A i \in 1..Len(abandoned') : abandoned'[i].attempts <= ReconnectionAttempts
       /\ (socket = "closed" /\ last'.op # "select") =>
              (socket' = "closed" /\ attempts' = attempts)
       /\ \A i \in 1..Len(abandoned) :
              abandoned[i].socket = "closed" => abandoned'[i] = abandoned[i]]_vars

\* C30's case: the connection of the active conversation was lost, five
\* attempts failed and the socket has given up
C30_Witness ==
    /\ last.op = "socket" /\ last.kind = "gave_up"
    /\ conversationId # Null
    /\ rooms = {}
    /\ attempts = ReconnectionAttempts
    /\ socket = "closed"

\* ------------------------------------------------------------------------
\* Uploads and failures

\* C27 as stated: an upload response appends the returned document and adds
\* its identifier to the processing set in one step, and no doc_processed
\* event and no load that returned the document has been handled before.
C27_AcceptedBeforeEventOrPoll ==
    [][last'.op = "upload_response" =>
        LET doc == upload[1].resp[1]
        IN /\ documents' = Append(documents, doc)
           /\ processingDocs' = processingDocs \cup {doc.id}
           /\ doc.id \notin hist.P
           /\ doc.id \notin Ids(documents)]_vars

\* C27: an upload response appends the returned document to the document list
\* and adds its identifier to the processing set in one step, without waiting
\* for a doc_processed event or a poll, and the poll timer is armed.
C27_UploadAcceptance ==
    [][last'.op = "upload_response" =>
        LET doc == upload[1].resp[1]
        IN /\ documents' = Append(documents, doc)
           /\ processingDocs' = processingDocs \cup {doc.id}
           /\ pollTimer' = conversationId]_vars

\* C27's case: an upload has just been accepted, no event has been handled and
\* no load has returned the document
C27_Witness ==
    /\ last.op = "upload_response"
    /\ hist.P = {}
    /\ Cardinality({i \in 1..Len(documents) : documents[i].id = last.doc_id}) = 1
    /\ last.doc_id \in processingDocs
    /\ pollTimer = conversationId

\* the number of files of this type in the list
CountOf(files, type) == Cardinality({i \in 1..Len(files) : files[i] = type})

C29_FailureDegradation ==
    [][last'.op \in {"get_failure", "send_failure", "upload_failure"} =>
        /\ last'.toasts # <<>>
        /\ UNCHANGED <<documents, selectedDocIds, processingDocs>>
        /\ messages' = IF last'.op = "send_failure"
                       THEN SelectSeq(messages, LAMBDA m : m.id # last'.tempId)
                       ELSE messages]_vars

\* ------------------------------------------------------------------------
\* Lifecycle states and the processing set

\* C38: every document of the view is in exactly one of the two states: the
\* load's Processing predicate holds of it or isDocumentReady does, never
\* neither and never both.
C38_TwoLifecycleStates ==
    \A i \in 1..Len(documents) :
        IsProcessing(documents[i]) # isDocumentReady(documents[i])

\* C34: every identifier of the processing set is the identifier of a
\* document of the document list.
C34_ProcessingWithinDocuments == processingDocs \subseteq Ids(documents)

\* ------------------------------------------------------------------------
\* Sends

\* C32: while a send request is unresolved, its temporary message is in the
\* message list.
C32_OptimisticPersistence ==
    \A r \in sendReqs : \E i \in 1..Len(messages) : messages[i].id = r.tempId

\* the messages of the list that carry a temporary identifier
TempMessages(msgs) == {i \in 1..Len(msgs) : IsTempId(msgs[i].id)}

\* C33: at most one send request is in flight and at most one message with a
\* temporary identifier is in the list; a call of handleSend while a send is
\* unresolved issues no request and inserts no message; the sending flag is
\* cleared when a send resolves, with a response or with a failure.
C33_OneSendAtATime ==
    [][/\ Cardinality(sendReqs') <= 1
       /\ Cardinality(TempMessages(messages')) <= 1
       /\ last'.op = "send_ignored" => UNCHANGED <<messages, sendReqs, isSending, now>>
       /\ last'.op \in {"send_response", "send_failure"} => ~isSending']_vars

\* C33's case: a first send has resolved, a second one is in flight with its
\* temporary message in the list, and a further call has been ignored
C33_Witness ==
    /\ last.op = "send_ignored"
    /\ now = 2
    /\ isSending
    /\ Cardinality(sendReqs) = 1
    /\ Cardinality(TempMessages(messages)) = 1

\* C36: a failed upload request leaves the document list and the processing
\* set as they were, with the documents uploaded earlier in the batch, raises
\* one error notification, stores nothing more, and ends the handler: the
\* files left are not uploaded and the uploading flag is cleared.
C36_UploadFailureInBatch ==
    [][last'.op = "upload_failure" =>
        /\ UNCHANGED <<documents, processingDocs, serverDocs>>
        /\ last'.toasts = <<"error">>
        /\ upload' = <<>>]_vars

\* C36's case: of a batch of three PDF files the first was accepted and is
\* processing, the request of the second failed and the third was left
C36_Witness ==
    /\ last.op = "upload_failure"
    /\ last.batch.files = <<"application/pdf", "application/pdf", "application/pdf">>
    /\ last.batch.requests = 2
    /\ last.left = <<"application/pdf">>
    /\ Len(documents) = 1
    /\ processingDocs = {documents[1].id}
    /\ upload = <<>>

\* C35: whenever the connection is open while a conversation is active, also
\* after it was dropped and re-established, the client has joined the room of
\* that conversation on it, so that the push events of the conversation reach
\* the registered handlers.
C35_RejoinAfterReconnect ==
    (socket = "connected" /\ conversationId # Null) => conversationId \in rooms

\* ------------------------------------------------------------------------
\* The view and the atom of the selected conversation

\* C31: every message of the message list and every document of the document
\* list belongs to the active conversation.
C31_SingleConversationView ==
    /\ \A i \in 1..Len(messages) : messages[i].conversation_id = conversationId
    /\ \A i \in 1..Len(documents) : documents[i].conversation_id = conversationId

\* C37: if every request is answered, the atom eventually holds the selected
\* conversation (null when none is selected) and keeps it.
C37_PreloadConvergence == <>[](AtomId = conversationId)

\* C37's case: the response for an earlier selection has arrived after the
\* atom already held the conversation selected last, and has replaced it
C37_Witness ==
    /\ last.op = "atom_response"
    /\ last.late
    /\ AtomId # conversationId

====
